---- MODULE Spec2Model ----
(***************************************************************************)
(* A model of pydmps' rhythmic dynamic movement primitive                  *)
(* (src/pydmps/dmp_rhythmic.py, class DMPs_rhythmic).                      *)
(*                                                                         *)
(* Numbers.  Real quantities are fixed-point integers with FxOne units to  *)
(* 1.0 and truncation toward zero.  Phases are integers on a grid of TwoPi *)
(* points to one turn.  np.cos and np.exp are computed (range reduction    *)
(* and a Taylor series); like the floating-point exp of the program, the   *)
(* fixed-point exp underflows to 0 for a sufficiently negative argument.   *)
(* NaN is a value of its own.  The 1e-10 of gen_weights is below the       *)
(* fixed-point resolution, so a denominator keeps it as a separate part.   *)
(***************************************************************************)
EXTENDS Integers, Sequences, FiniteSets

\* ------------------------------------------------------------------ bounds
MaxDmps == 2
MaxBfs == 4
MaxSteps == 2
MaxCycles == 2
RollDt == 5
TrajLen == 3
NumInst == 2

\* --------------------------------------------------------------- numbers
FxOne == 10 * 10 * 10
\* one turn, 2 * np.pi, in phase-grid units
TwoPi == 60
\* np.pi in fixed point
PiFx == 3142
\* the 1e-10 of gen_weights, counted in units of 1e-10
Eps == 1

\* a trajectory sample: a number in fixed point, or NaN
Num(v) == [nan |-> FALSE, v |-> v]
NaN == [nan |-> TRUE, v |-> 0]
isnan(s) == s.nan

Abs(a) == IF a < 0 THEN -a ELSE a
Sgn(a) == IF a < 0 THEN -1 ELSE IF a > 0 THEN 1 ELSE 0
\* integer quotient truncated toward zero
Quot(a, b) == Sgn(a) * Sgn(b) * (Abs(a) \div Abs(b))
FxMul(a, b) == Quot(a * b, FxOne)

\* np.cos at phase-grid point k (k may be negative or beyond one turn):
\* reduction to the first quadrant, then the Taylor series of cos.
CosSeries(th) ==
    LET t2 == FxMul(th, th)
        t4 == FxMul(t2, t2)
        t6 == FxMul(t4, t2)
        t8 == FxMul(t4, t4)
    IN  FxOne - Quot(t2, 2) + Quot(t4, 24) - Quot(t6, 720) + Quot(t8, 40320)

Cos(k) ==
    LET m == k % TwoPi
    IN  IF 4 * m <= TwoPi THEN CosSeries(Quot(PiFx * 2 * m, TwoPi))
        ELSE IF 4 * m < 3 * TwoPi
             THEN -CosSeries(Quot(PiFx * Abs(TwoPi - 2 * m), TwoPi))
             ELSE CosSeries(Quot(PiFx * 2 * (TwoPi - m), TwoPi))

\* np.exp for an argument z <= 0 in fixed point: exp(-i - f) = e^-i * e^-f.
ExpFrac(f) ==
    LET f2 == FxMul(f, f)
        f3 == FxMul(f2, f)
        f4 == FxMul(f3, f)
        f5 == FxMul(f4, f)
        f6 == FxMul(f5, f)
    IN  FxOne - f + Quot(f2, 2) - Quot(f3, 6) + Quot(f4, 24)
          - Quot(f5, 120) + Quot(f6, 720)

\* acc * e^-i, by i multiplications (none is needed once acc is 0)
RECURSIVE ExpInt(_, _)
ExpInt(acc, i) ==
    IF i = 0 \/ acc = 0 THEN acc
    ELSE ExpInt(FxMul(acc, Quot(367879 * FxOne, 1000000)), i - 1)

Exp(z) == ExpInt(ExpFrac((-z) % FxOne), (-z) \div FxOne)

\* ------------------------------------------------------------- sequences
RECURSIVE SumSeq(_)
SumSeq(s) == IF s = <<>> THEN 0 ELSE Head(s) + SumSeq(Tail(s))

\* np.dot of two vectors of fixed-point numbers
Dot(a, b) == SumSeq([t \in 1..Len(a) |-> FxMul(a[t], b[t])])

\* np.linspace(start, stop, num)
Linspace(start, stop, num) ==
    [i \in 1..num |-> start + Quot((i - 1) * (stop - start), num - 1)]

Zeros(n) == [i \in 1..n |-> 0]

\* a weight-array entry: the number num / (den + eps * 1e-10), num and den
\* in fixed point.  A plain number v is v / 1.
Plain(v) == [num |-> v, den |-> FxOne, eps |-> 0]
ZeroMatrix(n, m) == [d \in 1..n |-> [b \in 1..m |-> Plain(0)]]
\* the floating-point outcome of the division: the denominator is 0 only
\* when both of its parts are
IsNaNOrInf(q) == q.den = 0 /\ q.eps = 0
IsZero(q) == q.num = 0 /\ ~IsNaNOrInf(q)
\* the entry as a fixed-point number (the 1e-10 is below the resolution
\* unless it is the whole denominator, and then the numerator is 0 too)
Value(q) == IF q.den = 0 THEN 0 ELSE Quot(q.num * FxOne, q.den)

\* ------------------------------------------------------------------ state
VARIABLES
    alive,      \* the instances constructed so far
    dmp,        \* instance -> its attributes (self.n_dmps, self.c, self.w, ...)
    heap,       \* weight arrays: 0 is the caller's np array, i is the one
                \* instance i allocated; self.w holds one of these references
    call,       \* the last call made: method, instance, argument, result
    run         \* the rollout in progress: instance, loop counter, tracks

vars == <<alive, dmp, heap, call, run>>

Insts == 1..NumInst
CallerArray == 0
None == -1

NoCall == [op |-> "none", self |-> 0, arg |-> <<>>, ret |-> <<>>, raised |-> FALSE]
NoRun == [self |-> 0, t |-> 0, timesteps |-> 0,
          y_track |-> <<>>, dy_track |-> <<>>, ddy_track |-> <<>>]
Blank == [n_dmps |-> 0, n_bfs |-> 0, dt |-> 0, run_time |-> 0, timesteps |-> 0,
          ay |-> 0, by |-> 0, tau |-> 0,
          y0 |-> <<>>, goal |-> <<>>, w |-> None, c |-> <<>>, h |-> <<>>,
          y |-> <<>>, dy |-> <<>>, ddy |-> <<>>, x |-> 0]

\* self.w, the array the reference points to
W(self) == heap[dmp[self].w]

\* ------------------------------------------------- DMPs_rhythmic, methods
\* (variant, not the code) the centres with the end of the turn kept
gen_centers_closed(n_bfs) == Linspace(0, TwoPi, n_bfs + 1)

\* gen_centers: the centres, evenly spaced over one turn without its end
gen_centers(n_bfs) ==
    LET c == Linspace(0, TwoPi, n_bfs + 1)
    IN  SubSeq(c, 1, Len(c) - 1)

\* (variant, not the code) the front term of the discrete primitive, x * (goal - y0)
gen_front_term_discrete(x, dmp_num) == x * FxOne

\* gen_front_term for a scalar x: a placeholder that returns 1
gen_front_term(x, dmp_num) == FxOne

\* gen_front_term for an array x: np.ones(x.shape)
gen_front_term_arr(x, dmp_num) == [t \in 1..Len(x) |-> FxOne]

\* (variant, not the code) the Gaussian kernel of the discrete primitive, exp(-h * (x - c)^2)
gen_psi_gaussian(self, x) ==
    [b \in 1..Len(self.c) |->
        LET r == Quot((x - self.c[b]) * 2 * PiFx, TwoPi)
        IN  Exp(-(self.h[b] * FxMul(r, r)))]

\* gen_psi for a scalar x: exp(h * (cos(x - c) - 1)), one entry per centre
gen_psi(self, x) ==
    [b \in 1..Len(self.c) |-> Exp(self.h[b] * (Cos(x - self.c[b]) - FxOne))]

\* gen_psi for an array x: x[:, None] makes it one row per entry of x
gen_psi_arr(self, x) == [t \in 1..Len(x) |-> gen_psi(self, x[t])]

\* y_des[n, ~np.isnan(y_des[n])]
Valid(row) ==
    LET keep == SelectSeq(row, LAMBDA s : ~isnan(s))
    IN  [k \in 1..Len(keep) |-> keep[k].v]
RECURSIVE MinSeq(_)
MinSeq(s) ==
    IF Len(s) = 1 THEN s[1]
    ELSE LET m == MinSeq(Tail(s)) IN IF s[1] < m THEN s[1] ELSE m
RECURSIVE MaxSeq(_)
MaxSeq(s) ==
    IF Len(s) = 1 THEN s[1]
    ELSE LET m == MaxSeq(Tail(s)) IN IF s[1] > m THEN s[1] ELSE m

\* (variant, not the code) the mean of the valid samples, as the docstring has it
gen_goal_mean(self, y_des) ==
    IF \E n \in 1..self.n_dmps : Valid(y_des[n]) = <<>>
    THEN [raised |-> TRUE, ret |-> <<>>]
    ELSE [raised |-> FALSE,
          ret |-> [n \in 1..self.n_dmps |->
                     Quot(SumSeq(Valid(y_des[n])), Len(Valid(y_des[n])))]]

\* (variant, not the code) a dimension without valid samples keeps the 0 of np.zeros
gen_goal_default(self, y_des) ==
    [raised |-> FALSE,
     ret |-> [n \in 1..self.n_dmps |->
                IF Valid(y_des[n]) = <<>> THEN 0
                ELSE FxMul(FxOne \div 2,
                           MinSeq(Valid(y_des[n])) + MaxSeq(Valid(y_des[n])))]]

\* gen_goal: min() of an empty selection raises ValueError and no goal is
\* returned; otherwise the midpoint of each row's valid samples
gen_goal(self, y_des) ==
    IF \E n \in 1..self.n_dmps : Valid(y_des[n]) = <<>>
    THEN [raised |-> TRUE, ret |-> <<>>]
    ELSE [raised |-> FALSE,
          ret |-> [n \in 1..self.n_dmps |->
                     FxMul(FxOne \div 2,
                           MinSeq(Valid(y_des[n])) + MaxSeq(Valid(y_des[n])))]]

\* CanonicalSystem.rollout (rhythmic): the phase starts at 0 and advances by
\* dt each step, one value per step of the run time and the initial one
cs_rollout(self) == [t \in 1..(self.timesteps + 1) |-> (t - 1) * self.dt]

Column(m, j) == [t \in 1..Len(m) |-> m[t][j]]

\* (variant, not the code) the division without the 1e-10
gen_weights_unguarded(self, f_target) ==
    LET x_track == cs_rollout(self)
        psi_track == gen_psi_arr(self, x_track)
    IN  [d \in 1..self.n_dmps |->
          [b \in 1..self.n_bfs |->
             [num |-> Dot(Column(psi_track, b), Column(f_target, d)),
              den |-> SumSeq(Column(psi_track, b)),
              eps |-> 0]]]

\* gen_weights: the array self.w holds after the two loops have written it
gen_weights(self, f_target) ==
    LET x_track == cs_rollout(self)
        psi_track == gen_psi_arr(self, x_track)
    IN  [d \in 1..self.n_dmps |->
          [b \in 1..self.n_bfs |->
             [num |-> Dot(Column(psi_track, b), Column(f_target, d)),
              den |-> SumSeq(Column(psi_track, b)),
              eps |-> Eps]]]

\* ---------------------------------------------------- DMPs, the base class
\* the smallest representable offset
Nudge == 1

\* check_offset: a goal equal to y0 is moved off it
check_offset(self) ==
    [self EXCEPT !.goal = [d \in 1..self.n_dmps |->
        IF self.y0[d] = self.goal[d] THEN self.goal[d] + Nudge ELSE self.goal[d]]]

\* (variant, not the code) a reset that leaves the canonical system where it was
reset_state_keeps_phase(self) ==
    [self EXCEPT !.y = self.y0, !.dy = Zeros(self.n_dmps),
                 !.ddy = Zeros(self.n_dmps)]

\* reset_state: y back to y0, no velocity or acceleration, the phase back to 0
reset_state(self) ==
    [self EXCEPT !.y = self.y0, !.dy = Zeros(self.n_dmps),
                 !.ddy = Zeros(self.n_dmps), !.x = 0]

\* the time step in seconds (fixed point) of a phase step of dt grid points
DtFx(dt) == Quot(dt * 2 * PiFx, TwoPi)

\* (variant, not the code) self.w = w: the caller's array itself when one is passed
WeightRef_shared(id, a) == IF a.w = None THEN id ELSE a.w

\* self.w = ...: the instance's own array, never the caller's
WeightRef(id, a) == id

\* DMPs.__init__: the attributes; a scalar y0 or goal is one value per
\* dimension; the weights are the instance's own array (id is where it is
\* allocated), zero or a copy of the array the caller passed
BaseInit(id, a) ==
    reset_state(
      [Blank EXCEPT !.n_dmps = a.n_dmps, !.n_bfs = a.n_bfs, !.dt = a.dt,
                    !.run_time = TwoPi, !.timesteps = TwoPi \div a.dt,
                    !.ay = a.ay, !.by = a.by, !.tau = FxOne,
                    !.y0 = a.y0, !.goal = a.goal, !.w = WeightRef(id, a)])

\* the array the instance allocates for its weights
OwnWeights(a, hp) ==
    IF a.w = None THEN ZeroMatrix(a.n_dmps, a.n_bfs) ELSE hp[a.w]

\* (variant, not the code) the constructor without its last call
DMPs_rhythmic_unchecked(id, a) ==
    [BaseInit(id, a) EXCEPT !.c = gen_centers(a.n_bfs),
                            !.h = [b \in 1..a.n_bfs |-> a.n_bfs]]

\* DMPs_rhythmic.__init__: the base constructor, the centres, the widths,
\* then check_offset
DMPs_rhythmic(id, a) ==
    check_offset(
      [BaseInit(id, a) EXCEPT !.c = gen_centers(a.n_bfs),
                              !.h = [b \in 1..a.n_bfs |-> a.n_bfs]])

\* the weights as fixed-point numbers
WeightValues(w) == [d \in 1..Len(w) |-> [b \in 1..Len(w[d]) |-> Value(w[d][b])]]

\* num / (den + 1e-10) in fixed point, den a sum of activations: when den is
\* 0 every activation is 0 and so is num
DivEps(num, den) == IF den = 0 THEN 0 ELSE Quot(num * FxOne, den)
FxDiv(a, b) == Quot(a * FxOne, b)

\* step: one integration step (the phase, the activations, the forcing term,
\* the acceleration, then Euler); f and front are what it computed on the way
step(self, w) ==
    LET x == self.x + Quot(self.dt * FxOne, self.tau)
        psi == gen_psi(self, x)
        dts == FxDiv(DtFx(self.dt), self.tau)
        front == [d \in 1..self.n_dmps |-> gen_front_term(x, d)]
        f == [d \in 1..self.n_dmps |->
                DivEps(FxMul(front[d], Dot(psi, WeightValues(w)[d])), SumSeq(psi))]
        ddy == [d \in 1..self.n_dmps |->
                FxDiv(FxDiv(FxMul(self.ay,
                          FxMul(self.by, self.goal[d] - self.y[d]) - self.dy[d])
                        + f[d], self.tau), self.tau)]
        dy == [d \in 1..self.n_dmps |-> self.dy[d] + FxMul(ddy[d], dts)]
        y == [d \in 1..self.n_dmps |-> self.y[d] + FxMul(dy[d], dts)]
    IN  [self |-> [self EXCEPT !.x = x, !.ddy = ddy, !.dy = dy, !.y = y],
         f |-> f, front |-> front]

\* ---------------------------------------------------------------- actions
Called(op, self, arg, ret, raised) ==
    [op |-> op, self |-> self, arg |-> arg, ret |-> ret, raised |-> raised]
Idle == run.self = 0
\* no rollout is in progress and the last call's result has been taken
Ready == Idle /\ call.op = "none"

\* DMPs_rhythmic(n_dmps=..., n_bfs=..., w=..., ...): a caller's array of the
\* wrong shape is a configuration error and no instance is made
New(id, a) ==
    /\ Ready /\ id \notin alive
    /\ IF a.w # None /\ (Len(heap[a.w]) # a.n_dmps \/ Len(heap[a.w][1]) # a.n_bfs)
       THEN /\ call' = Called("__init__", id, a, <<>>, TRUE)
            /\ UNCHANGED <<alive, dmp, heap, run>>
       ELSE /\ alive' = alive \cup {id}
            /\ dmp' = [dmp EXCEPT ![id] = DMPs_rhythmic(id, a)]
            /\ heap' = [heap EXCEPT ![id] = OwnWeights(a, heap)]
            /\ call' = Called("__init__", id, a, <<>>, FALSE)
            /\ UNCHANGED run

GenPsiCall(id, x) ==
    /\ Ready /\ id \in alive
    /\ call' = Called("gen_psi", id, x, gen_psi(dmp[id], x), FALSE)
    /\ UNCHANGED <<alive, dmp, heap, run>>

GenPsiArrayCall(id, x) ==
    /\ Ready /\ id \in alive
    /\ call' = Called("gen_psi_array", id, x, gen_psi_arr(dmp[id], x), FALSE)
    /\ UNCHANGED <<alive, dmp, heap, run>>

GenFrontTermCall(id, x, d) ==
    /\ Ready /\ id \in alive /\ d \in 1..dmp[id].n_dmps
    /\ call' = Called("gen_front_term", id, x, gen_front_term(x, d), FALSE)
    /\ UNCHANGED <<alive, dmp, heap, run>>

GenFrontTermArrayCall(id, x, d) ==
    /\ Ready /\ id \in alive /\ d \in 1..dmp[id].n_dmps
    /\ call' = Called("gen_front_term_array", id, x, gen_front_term_arr(x, d), FALSE)
    /\ UNCHANGED <<alive, dmp, heap, run>>

GenGoalCall(id, y_des) ==
    /\ Ready /\ id \in alive /\ Len(y_des) = dmp[id].n_dmps
    /\ LET r == gen_goal(dmp[id], y_des)
       IN  call' = Called("gen_goal", id, y_des, r.ret, r.raised)
    /\ UNCHANGED <<alive, dmp, heap, run>>

\* gen_weights writes self.w[d, b] in place; the canonical system is left at
\* the end of its rollout
GenWeightsCall(id, f_target) ==
    /\ Ready /\ id \in alive
    /\ Len(f_target) = dmp[id].timesteps + 1
    /\ \A t \in 1..Len(f_target) : Len(f_target[t]) = dmp[id].n_dmps
    /\ heap' = [heap EXCEPT ![dmp[id].w] = gen_weights(dmp[id], f_target)]
    /\ dmp' = [dmp EXCEPT ![id].x = dmp[id].timesteps * dmp[id].dt]
    /\ call' = Called("gen_weights", id, f_target, <<>>, FALSE)
    /\ UNCHANGED <<alive, run>>

\* imitate_path: the goal from gen_goal (an error there ends the call with
\* nothing set), y0 the first sample of each dimension, the weights fitted
\* by gen_weights to the target forcing term; that target is derived from
\* the path and is any array of the right shape here
ImitatePath(id, y_des, f_target) ==
    /\ Ready /\ id \in alive /\ Len(y_des) = dmp[id].n_dmps
    /\ dmp[id].x <= dmp[id].run_time
    /\ Len(f_target) = dmp[id].timesteps + 1
    /\ \A t \in 1..Len(f_target) : Len(f_target[t]) = dmp[id].n_dmps
    /\ LET g == gen_goal(dmp[id], y_des)
           self == [dmp[id] EXCEPT !.y0 = [d \in 1..dmp[id].n_dmps |-> y_des[d][1].v],
                                   !.goal = g.ret,
                                   !.x = dmp[id].timesteps * dmp[id].dt]
           w == gen_weights(dmp[id], f_target)
       IN  IF g.raised
           THEN /\ call' = Called("imitate_path", id, y_des, <<>>, TRUE)
                /\ UNCHANGED <<dmp, heap>>
           ELSE /\ dmp' = [dmp EXCEPT ![id] = self]
                /\ heap' = [heap EXCEPT ![dmp[id].w] = w]
                /\ call' = Called("imitate_path", id, y_des, w, FALSE)
    /\ UNCHANGED <<alive, run>>

ResetStateCall(id) ==
    /\ Ready /\ id \in alive
    /\ dmp' = [dmp EXCEPT ![id] = reset_state(dmp[id])]
    /\ call' = Called("reset_state", id, <<>>, <<>>, FALSE)
    /\ UNCHANGED <<alive, heap, run>>

\* dmp.y0 = np.array([...])
SetY0(id, y0) ==
    /\ Ready /\ id \in alive /\ Len(y0) = dmp[id].n_dmps
    /\ dmp' = [dmp EXCEPT ![id].y0 = y0]
    /\ call' = Called("y0 =", id, y0, <<>>, FALSE)
    /\ UNCHANGED <<alive, heap, run>>

StepCall(id) ==
    /\ Ready /\ id \in alive
    /\ dmp[id].x < MaxCycles * TwoPi
    /\ LET r == step(dmp[id], W(id))
       IN  /\ dmp' = [dmp EXCEPT ![id] = r.self]
           /\ call' = Called("step", id, <<>>, [f |-> r.f, front |-> r.front], FALSE)
    /\ UNCHANGED <<alive, heap, run>>

\* rollout: reset_state, then self.timesteps times step, each step's y, dy
\* and ddy appended to the tracks it returns
RolloutBegin(id) ==
    /\ Ready /\ id \in alive
    /\ dmp' = [dmp EXCEPT ![id] = reset_state(dmp[id])]
    /\ run' = [NoRun EXCEPT !.self = id, !.timesteps = dmp[id].timesteps]
    /\ call' = Called("reset_state", id, <<>>, <<>>, FALSE)
    /\ UNCHANGED <<alive, heap>>

RolloutStep ==
    /\ ~Idle /\ run.t < run.timesteps
    /\ LET r == step(dmp[run.self], W(run.self))
       IN  /\ dmp' = [dmp EXCEPT ![run.self] = r.self]
           /\ run' = [run EXCEPT !.t = run.t + 1,
                                 !.y_track = Append(run.y_track, r.self.y),
                                 !.dy_track = Append(run.dy_track, r.self.dy),
                                 !.ddy_track = Append(run.ddy_track, r.self.ddy)]
           /\ call' = Called("step", run.self, <<>>, [f |-> r.f, front |-> r.front], FALSE)
    /\ UNCHANGED <<alive, heap>>

RolloutEnd ==
    /\ ~Idle /\ run.t = run.timesteps
    /\ call' = Called("rollout", run.self, <<>>,
                      <<run.y_track, run.dy_track, run.ddy_track>>, FALSE)
    /\ run' = NoRun
    /\ UNCHANGED <<alive, dmp, heap>>

\* the caller takes the result of the last call
Return ==
    /\ Idle /\ call.op # "none"
    /\ call' = NoCall
    /\ UNCHANGED <<alive, dmp, heap, run>>

\* ---------------------------------------------------------- specifications
\* the arguments of a constructor call
Args(n_dmps, n_bfs, dt, y0, goal, w, ay, by) ==
    [n_dmps |-> n_dmps, n_bfs |-> n_bfs, dt |-> dt, y0 |-> y0, goal |-> goal,
     w |-> w, ay |-> ay, by |-> by]
\* y0=0, goal=1 in every dimension, no weights passed, gains 1/4 and 1/16
Defaults(n_dmps, n_bfs, dt) ==
    Args(n_dmps, n_bfs, dt, [d \in 1..n_dmps |-> 0], [d \in 1..n_dmps |-> FxOne],
         None, FxOne \div 4, FxOne \div 16)

Vectors(n, S) == [1..n -> S]
\* time steps that divide the run time into at most MaxSteps steps
DtChoices == {TwoPi \div k : k \in 1..MaxSteps}
Phases == (-(TwoPi \div 2))..(MaxCycles * TwoPi)
\* arrays of two phases, one step or one turn apart
PhaseArrays == {<<x, x + k>> : x \in (-(TwoPi \div 2))..((MaxCycles - 1) * TwoPi), k \in {1, TwoPi}}
Samples == {NaN, Num(0), Num(FxOne)}
\* trajectories of n rows (gen_goal's loop takes the rows one by one): one
\* row is any sequence of samples, the others hold one sample throughout
Trajectories(n) ==
    {[d \in 1..n |-> IF d = k THEN r ELSE [j \in 1..TrajLen |-> s]] :
        k \in 1..n, r \in Vectors(TrajLen, Samples), s \in Samples}
\* target arrays of T rows and n columns (gen_weights' loop takes the columns
\* one by one): one column is any sequence of -1 and 1, the others are constant
FTargets(T, n) ==
    {[t \in 1..T |-> [d \in 1..n |-> IF d = k THEN col[t] ELSE v]] :
        k \in 1..n, col \in Vectors(T, {-FxOne, FxOne}), v \in {-FxOne, FxOne}}

NoInstance ==
    /\ alive = {}
    /\ dmp = [i \in Insts |-> Blank]
    /\ call = NoCall
    /\ run = NoRun

InitEmpty == NoInstance /\ heap = [k \in 0..NumInst |-> <<>>]

\* the basis functions: construction, then gen_psi and gen_front_term on a
\* scalar phase and on an array of two phases
NextPsi ==
    \/ \E n \in 1..MaxBfs : New(1, Defaults(1, n, TwoPi))
    \/ \E x \in Phases : GenPsiCall(1, x)
    \/ \E x \in PhaseArrays : GenPsiArrayCall(1, x)
    \/ \E x \in Phases : GenFrontTermCall(1, x, 1)
    \/ \E x \in PhaseArrays : GenFrontTermArrayCall(1, x, 1)
    \/ Return
SpecPsi == InitEmpty /\ [][NextPsi]_vars

\* the weights: construction, then gen_weights on every target array
NextWeights ==
    \/ \E n \in 1..MaxDmps, m \in 1..MaxBfs, dt \in DtChoices :
          New(1, Defaults(n, m, dt))
    \/ \E f \in FTargets(dmp[1].timesteps + 1, dmp[1].n_dmps) : GenWeightsCall(1, f)
    \/ Return
SpecWeights == InitEmpty /\ [][NextWeights]_vars

\* the goal: construction, then gen_goal on every trajectory
NextGoal ==
    \/ \E n \in 1..MaxDmps : New(1, Defaults(n, 1, TwoPi))
    \/ \E y_des \in Trajectories(dmp[1].n_dmps) : GenGoalCall(1, y_des)
    \/ Return
SpecGoal == InitEmpty /\ [][NextGoal]_vars

\* the life of one primitive: construction with every y0 and goal, then
\* imitate_path, gen_goal, reset_state, y0 assignment, step and rollout
DemoRows == {<<Num(0), NaN, Num(FxOne)>>, <<NaN, NaN, NaN>>}
ConstantTargets(T, n) == {[t \in 1..T |-> [d \in 1..n |-> v]] : v \in {-FxOne, FxOne}}
\* y0 a scalar (one value for every dimension), goal a vector
LifeArgs ==
    UNION {{[Defaults(n, 2, TwoPi \div 2) EXCEPT !.y0 = [d \in 1..n |-> y0], !.goal = goal] :
               y0 \in {0, FxOne}, goal \in Vectors(n, {0, FxOne})} : n \in 1..MaxDmps}
Next ==
    \/ \E a \in LifeArgs : New(1, a)
    \/ \E y_des \in Vectors(dmp[1].n_dmps, DemoRows) :
          \E f \in ConstantTargets(dmp[1].timesteps + 1, dmp[1].n_dmps) :
             ImitatePath(1, y_des, f)
    \/ \E y_des \in Vectors(dmp[1].n_dmps, DemoRows) : GenGoalCall(1, y_des)
    \/ ResetStateCall(1)
    \/ SetY0(1, [d \in 1..dmp[1].n_dmps |-> IF d = 1 THEN 2 * FxOne ELSE FxOne \div 2])
    \/ StepCall(1)
    \/ RolloutBegin(1)
    \/ RolloutStep
    \/ RolloutEnd
    \/ Return
Spec == InitEmpty /\ [][Next]_vars

\* rollouts: construction with every gain setting, with no weights passed
\* or with the caller's array (zeros or ones), then rollout
OnesMatrix(n, m) == [d \in 1..n |-> [b \in 1..m |-> Plain(FxOne)]]
InitCaller ==
    /\ NoInstance
    /\ \E n \in 1..MaxDmps : \E w \in {ZeroMatrix(n, 2), OnesMatrix(n, 2)} :
          heap = [k \in 0..NumInst |-> IF k = CallerArray THEN w ELSE <<>>]
\* <<ay, by>>: critically damped, overdamped, underdamped
Gains == {<<(3 * FxOne) \div 2, (3 * FxOne) \div 8>>, <<FxOne, FxOne \div 8>>,
          <<FxOne, 2 * FxOne>>}
RollArgs ==
    UNION {{[Defaults(n, 2, RollDt) EXCEPT !.y0 = [d \in 1..n |-> y0], !.goal = goal,
                                          !.w = w, !.ay = g[1], !.by = g[2]] :
               y0 \in {0, FxOne}, goal \in Vectors(n, {0, FxOne}),
               w \in {None, CallerArray}, g \in Gains} : n \in 1..MaxDmps}
NextRollout ==
    \/ \E a \in RollArgs : New(1, a)
    \/ RolloutBegin(1)
    \/ RolloutStep
    \/ RolloutEnd
    \/ Return
SpecRollout == InitCaller /\ [][NextRollout]_vars

\* the centres: construction with every number of basis functions, then
\* every method of the class
NextCentres ==
    \/ \E n \in 1..MaxDmps, m \in 1..MaxBfs, dt \in DtChoices :
          New(1, Defaults(n, m, dt))
    \/ \E x \in {0, TwoPi \div 4, TwoPi} : GenPsiCall(1, x)
    \/ \E x \in {0, TwoPi \div 4, TwoPi} : GenPsiArrayCall(1, <<x, x + TwoPi>>)
    \/ \E x \in {0, TwoPi} : GenFrontTermCall(1, x, 1)
    \/ \E x \in {0, TwoPi} : GenFrontTermArrayCall(1, <<x, x + 1>>, 1)
    \/ \E y_des \in Vectors(dmp[1].n_dmps, DemoRows) : GenGoalCall(1, y_des)
    \/ \E f \in ConstantTargets(dmp[1].timesteps + 1, dmp[1].n_dmps) :
          GenWeightsCall(1, f)
    \/ Return
SpecCentres == InitEmpty /\ [][NextCentres]_vars

\* several primitives: each constructed with no weights passed or with the
\* caller's array, then gen_weights on any of them
ShareArgs ==
    {[Defaults(n, 2, TwoPi) EXCEPT !.w = w] : n \in 1..MaxDmps, w \in {None, CallerArray}}
NextShare ==
    \/ \E id \in Insts, a \in ShareArgs : New(id, a)
    \/ \E id \in Insts :
          \E f \in ConstantTargets(dmp[id].timesteps + 1, dmp[id].n_dmps) :
             GenWeightsCall(id, f)
    \/ Return
SpecShare == InitCaller /\ [][NextShare]_vars

\* ------------------------------------------------------------------ claims
\* the valid (non-NaN) samples of a trajectory row, as a set
ValidSet(row) == {row[k].v : k \in {j \in 1..Len(row) : ~row[j].nan}}
SetMin(S) == CHOOSE m \in S : \A v \in S : m <= v
SetMax(S) == CHOOSE m \in S : \A v \in S : m >= v

RECURSIVE SumOver(_, _, _, _)
SumOver(self, b, v, t) ==
    IF t = 0 THEN 0
    ELSE SumOver(self, b, v, t - 1)
         + FxMul(gen_psi(self, (t - 1) * self.dt)[b], v[t])

\* C3: after gen_weights(f_target) every w[d, b] is
\* sum_t(psi_b(x_t) * f_target[t, d]) / (sum_t(psi_b(x_t)) + 1e-10); the
\* denominator is not zero, so no weight is NaN or infinite, and a basis
\* function whose total activation is zero has weight 0.
C3_WeightsFormula ==
    call.op = "gen_weights" =>
        LET self == dmp[call.self]
            T == Len(call.arg)
        IN  \A d \in 1..self.n_dmps : \A b \in 1..self.n_bfs :
              LET q == W(call.self)[d][b]
              IN  /\ q.num = SumOver(self, b, [t \in 1..T |-> call.arg[t][d]], T)
                  /\ q.den = SumOver(self, b, [t \in 1..T |-> FxOne], T)
                  /\ q.eps = Eps
                  /\ ~IsNaNOrInf(q)
                  /\ (q.den = 0 => IsZero(q))

\* one basis function was never active during the rollout, another was
C3_Witness ==
    /\ call.op = "gen_weights"
    /\ \E d \in 1..dmp[1].n_dmps : \E b1, b2 \in 1..dmp[1].n_bfs :
          /\ W(1)[d][b1].den = 0 /\ IsZero(W(1)[d][b1])
          /\ W(1)[d][b2].den > 0 /\ W(1)[d][b2].num # 0

\* C4, as stated: gen_psi(x)[b] is in (0, 1], and is 1 exactly when x = c[b].
C4_Original ==
    call.op = "gen_psi" =>
        \A b \in 1..dmp[call.self].n_bfs :
            /\ 0 < call.ret[b] /\ call.ret[b] <= FxOne
            /\ (call.ret[b] = FxOne <=> call.arg = dmp[call.self].c[b])

\* C4, amended: gen_psi(x)[b] is in [0, 1] (0 where exp underflows), and is 1
\* exactly when x is a whole number of turns away from c[b].
C4_PsiRange ==
    call.op = "gen_psi" =>
        \A b \in 1..dmp[call.self].n_bfs :
            /\ 0 <= call.ret[b] /\ call.ret[b] <= FxOne
            /\ (call.ret[b] = FxOne <=> (call.arg - dmp[call.self].c[b]) % TwoPi = 0)

\* a phase one turn past a centre (activation 1) and opposite another
\* (activation underflowed to 0)
C4_Witness ==
    /\ call.op = "gen_psi"
    /\ \E b1, b2 \in 1..dmp[1].n_bfs :
          /\ call.ret[b1] = FxOne /\ call.arg # dmp[1].c[b1]
          /\ call.ret[b2] = 0

\* C5: gen_psi is periodic in the phase: gen_psi(x) = gen_psi(x + 2 pi) for
\* every basis function.
C5_PsiPeriodic ==
    (call.op = "gen_psi_array" /\ call.arg[2] = call.arg[1] + TwoPi)
    => call.ret[1] = call.ret[2]

\* two phases one turn apart, off the centres, with a partial activation
C5_Witness ==
    /\ call.op = "gen_psi_array" /\ call.arg[2] = call.arg[1] + TwoPi
    /\ call.arg[1] > 0
    /\ \E b \in 1..dmp[1].n_bfs : 0 < call.ret[1][b] /\ call.ret[1][b] < FxOne
    /\ \A b \in 1..dmp[1].n_bfs : call.arg[1] # dmp[1].c[b]

\* C2: after any sequence of operations, reset_state() leaves y = y0 (the
\* current y0), dy = 0 and ddy = 0 in every dimension and the canonical
\* phase at its initial value 0.
C2_ResetRestores ==
    call.op = "reset_state" =>
        LET self == dmp[call.self]
        IN  /\ self.y = self.y0
            /\ self.dy = Zeros(self.n_dmps)
            /\ self.ddy = Zeros(self.n_dmps)
            /\ self.x = 0

\* a reset of a primitive whose y0 was assigned after weights were fitted
C2_Witness ==
    /\ call.op = "reset_state" /\ Idle
    /\ dmp[1].y0[1] = 2 * FxOne /\ dmp[1].y = dmp[1].y0
    /\ \E b \in 1..dmp[1].n_bfs : ~IsZero(W(1)[1][b])

\* C6: when a dimension of the trajectory has no valid sample, gen_goal --
\* called directly or from imitate_path -- ends with an error: no goal
\* vector is returned and nothing of the primitive, its goal included, is set.
C6_GoalFailure ==
    [][(/\ call.op = "none" /\ call'.op \in {"gen_goal", "imitate_path"}
        /\ \E n \in 1..Len(call'.arg) : ValidSet(call'.arg[n]) = {})
       => (call'.raised /\ call'.ret = <<>> /\ dmp' = dmp /\ heap' = heap)]_vars

\* imitate_path failed on a trajectory whose other dimension was valid
C6_Witness ==
    /\ call.op = "imitate_path" /\ call.raised
    /\ Len(call.arg) = 2
    /\ ValidSet(call.arg[1]) # {} /\ ValidSet(call.arg[2]) = {}
    /\ dmp[1].goal[2] # 0

\* C10: when construction completes goal[d] # y0[d] in every dimension;
\* check_offset moved the goal only where it equalled y0, and y0 is as given.
C10_OffsetAfterInit ==
    (call.op = "__init__" /\ ~call.raised) =>
        LET self == dmp[call.self]
        IN  /\ self.y0 = call.arg.y0
            /\ \A d \in 1..self.n_dmps :
                 /\ self.goal[d] # self.y0[d]
                 /\ (call.arg.y0[d] # call.arg.goal[d] => self.goal[d] = call.arg.goal[d])
                 /\ (call.arg.y0[d] = call.arg.goal[d] => self.goal[d] # call.arg.goal[d])

\* one dimension was constructed with goal = y0, the other was not
C10_Witness ==
    /\ call.op = "__init__" /\ ~call.raised /\ call.arg.n_dmps = 2
    /\ call.arg.y0[1] = call.arg.goal[1] /\ call.arg.y0[2] # call.arg.goal[2]
    /\ dmp[1].goal[1] # call.arg.goal[1]

ZeroWeights(id) ==
    \A d \in 1..Len(W(id)) : \A b \in 1..Len(W(id)[d]) : IsZero(W(id)[d][b])
\* the distance to the goal never grows along y0 and the track so far
Monotone(self, y_track) ==
    LET ys == <<self.y0>> \o y_track
    IN  \A t \in 1..(Len(ys) - 1) : \A d \in 1..self.n_dmps :
           Abs(self.goal[d] - ys[t + 1][d]) <= Abs(self.goal[d] - ys[t][d])
\* gains that are not underdamped, and a step that is not too long for them
Damped(self) ==
    /\ 4 * self.by <= self.ay
    /\ FxMul(self.ay, DtFx(self.dt)) <= self.tau

C8_NoSharedWeights ==
    [][(call.op = "none" /\ call'.op = "gen_weights")
       => /\ heap'[CallerArray] = heap[CallerArray]
          /\ \A j \in alive \ {call'.self} : heap'[dmp'[j].w] = heap[dmp[j].w]]_vars

\* the first primitive was fitted; the second still holds the caller's
\* (non-zero) values, and so does the caller's array
C8_Witness ==
    /\ alive = {1, 2} /\ call.op = "gen_weights" /\ call.self = 1
    /\ dmp[1].n_dmps = dmp[2].n_dmps
    /\ \E b \in 1..2 : ~IsZero(heap[CallerArray][1][b])
    /\ W(2) = heap[CallerArray]
    /\ W(1) # heap[CallerArray]

\* C9: after construction the centres are n_bfs values, strictly increasing
\* from 0 in steps of 2 pi / n_bfs, all in [0, 2 pi); gen_weights, gen_psi,
\* gen_goal and gen_front_term leave them so.
C9_Centres ==
    \A id \in alive :
        LET c == dmp[id].c
            n == dmp[id].n_bfs
        IN  /\ Len(c) = n
            /\ c[1] = 0
            /\ \A i \in 1..(n - 1) : c[i] < c[i + 1] /\ n * (c[i + 1] - c[i]) = TwoPi
            /\ \A i \in 1..n : 0 <= c[i] /\ c[i] < TwoPi

\* three centres or more, after gen_weights has fitted non-zero weights
C9_Witness ==
    /\ 1 \in alive /\ dmp[1].n_bfs >= 3
    /\ call.op = "gen_weights"
    /\ \E b \in 1..dmp[1].n_bfs : ~IsZero(W(1)[1][b])
    /\ dmp[1].c[3] = 2 * (TwoPi \div dmp[1].n_bfs)

====
